---- MODULE Spec2Model ----
(***************************************************************************)
(* The vcluster resource of terraform-provider-vcluster                    *)
(* (vcluster/resource_vcluster.go): the four lifecycle handlers, the       *)
(* passthrough importer, the argument vectors they hand to the external    *)
(* `vcluster` tool, and the way Read maps the tool's `list` output back    *)
(* into the resource record.                                               *)
(*                                                                         *)
(* The external tool is a black box: each invocation nondeterministically  *)
(* succeeds or fails and returns one of a small set of raw outputs.  The   *)
(* host runtime calls the handlers at times of its choosing; the only      *)
(* ordering it is assumed to keep is the one of `terraform import`, which  *)
(* refreshes (Read) an imported resource before anything else is done      *)
(* with it.                                                                *)
(***************************************************************************)
EXTENDS Integers, Sequences, FiniteSets, TLC

VARIABLES
    d,            \* the schema.ResourceData handed to the handlers
    imported,     \* d came from the importer and no Read has succeeded on it yet
    op,           \* the last operation
    prev,         \* d as it was when the last operation started
    invocations,  \* the argument vectors the last operation executed
    exit,         \* how the last invocation ended: "ok", "fail", or "none"
    out,          \* the combined output of the last invocation
    diag,         \* the diag.Diagnostics the last operation returned
    writes,       \* the d.SetId / d.Set calls of the last operation, in order
    again,        \* the last two operations were successful Reads of one output
    sinceDelete   \* "pending" from a successful Delete of a tracked resource
                  \* to the next successful Read, "read" right after that Read

vars == <<d, imported, op, prev, invocations, exit, out, diag, writes, again, sinceDelete>>

(***************************************************************************)
(* Bounds and input sets                                                   *)
(***************************************************************************)
MaxEntries == 2

Names == {"dev1", "dev2"}
Namespaces == {"", "team-a"}
Contexts == {"", "kind"}
KubernetesVersions == {"", "v1.25"}
distroKinds == {"k3s"}
\* an optional boolean attribute of the configuration: absent, or one value
OptBools == {{}, {TRUE}, {FALSE}}

T1 == "2022-12-09T03:12:10Z"
T2 == "2023-01-02T10:00:00Z"
ZeroTime == "0001-01-01T00:00:00Z"
ValidTimes == {T1, T2}

BoolFields == {"isolate", "expose", "expose_local", "disable_ingress_sync", "create_namespace"}

(***************************************************************************)
(* The resource record                                                     *)
(***************************************************************************)
\* the attributes the caller may configure
AllConfigs ==
    [name : Names, distro : {""} \cup distroKinds,
     namespace : Namespaces, context : Contexts,
     kubernetes_version : KubernetesVersions,
     isolate : OptBools, expose : OptBools, expose_local : OptBools,
     disable_ingress_sync : OptBools, create_namespace : OptBools]

\* the configurations the lifecycle model draws from: the creation and
\* targeting flags either all left out or all given
Configs ==
    {c \in AllConfigs :
        \/ /\ c.distro = "" /\ c.kubernetes_version = ""
           /\ c.namespace = "" /\ c.context = ""
           /\ \A k \in BoolFields : c[k] = {}
        \/ /\ c.distro = "k3s" /\ c.kubernetes_version = "v1.25"
           /\ c.namespace = "team-a" /\ c.context = "kind"
           /\ c.isolate = {TRUE} /\ c.expose = {FALSE}
           /\ c.expose_local = {} /\ c.disable_ingress_sync = {}
           /\ c.create_namespace = {TRUE}}

\* a record the host has planned from configuration c: no identifier, the
\* computed attributes unknown
NewRecord(c) ==
    [id |-> "", name |-> c.name, distro |-> c.distro,
     namespace |-> c.namespace, context |-> c.context,
     kubernetes_version |-> c.kubernetes_version,
     isolate |-> c.isolate, expose |-> c.expose, expose_local |-> c.expose_local,
     disable_ingress_sync |-> c.disable_ingress_sync,
     create_namespace |-> c.create_namespace,
     status |-> "", created |-> ""]

\* the record schema.ImportStatePassthroughContext returns: the identifier
\* given to the import, every attribute at its zero value
ImportedRecord(i) ==
    [id |-> i, name |-> "", distro |-> "", namespace |-> "", context |-> "",
     kubernetes_version |-> "",
     isolate |-> {}, expose |-> {}, expose_local |-> {},
     disable_ingress_sync |-> {}, create_namespace |-> {},
     status |-> "", created |-> ""]

\* d.Get(key) of a TypeBool attribute: the configured value, and the type's
\* zero value (false, never nil) when the configuration leaves it out
GetBool(rd, key) == IF rd[key] = {} THEN FALSE ELSE CHOOSE b \in rd[key] : TRUE

\* fmt.Sprintf("%v", bool)
FormatBool(b) == IF b THEN "true" ELSE "false"

(***************************************************************************)
(* Argument vectors                                                        *)
(***************************************************************************)
\* vclusterBaseArgs without the tests for the empty string
BaseArgsUnguarded(rd, args) ==
    args \o <<"--namespace", rd.namespace>> \o <<"--context", rd.context>>

vclusterBaseArgs(rd, args) ==
    LET withNamespace ==
            IF rd.namespace # "" THEN args \o <<"--namespace", rd.namespace>> ELSE args
    IN  IF rd.context # "" THEN withNamespace \o <<"--context", rd.context>>
        ELSE withNamespace

\* a flag that is passed only when it is true
BoolFlagOmitFalse(rd, flag, key) ==
    IF GetBool(rd, key) THEN <<"--" \o flag \o "=true">> ELSE <<>>

\* fmt.Sprintf("--<flag>=%v", d.Get(key).(bool)); the `!= nil` test around it
\* never fails, d.Get of a schema attribute being never nil
BoolFlag(rd, flag, key) == <<"--" \o flag \o "=" \o FormatBool(GetBool(rd, key))>>

\* the targeting flags appended after the creation flags
CreateArgsTargetingLast(rd) ==
    vclusterBaseArgs(rd,
        <<"create", rd.name, "--connect=false">>
        \o (IF rd.distro # "" THEN <<"--distro=" \o rd.distro>> ELSE <<>>)
        \o BoolFlag(rd, "isolate", "isolate")
        \o BoolFlag(rd, "expose", "expose")
        \o BoolFlag(rd, "expose-local", "expose_local")
        \o BoolFlag(rd, "disable-ingress-sync", "disable_ingress_sync")
        \o BoolFlag(rd, "create-namespace", "create_namespace")
        \o (IF rd.kubernetes_version # ""
            THEN <<"--kubernetes-version=" \o rd.kubernetes_version>> ELSE <<>>))

CreateArgs(rd) ==
    vclusterBaseArgs(rd, <<"create", rd.name, "--connect=false">>)
    \o (IF rd.distro # "" THEN <<"--distro=" \o rd.distro>> ELSE <<>>)
    \o BoolFlag(rd, "isolate", "isolate")
    \o BoolFlag(rd, "expose", "expose")
    \o BoolFlag(rd, "expose-local", "expose_local")
    \o BoolFlag(rd, "disable-ingress-sync", "disable_ingress_sync")
    \o BoolFlag(rd, "create-namespace", "create_namespace")
    \o (IF rd.kubernetes_version # ""
        THEN <<"--kubernetes-version=" \o rd.kubernetes_version>> ELSE <<>>)

ReadArgs(rd) == vclusterBaseArgs(rd, <<"list", "--output", "json">>)

DeleteArgs(rd) == vclusterBaseArgs(rd, <<"delete", rd.name>>)

\* strings.Join(args, sep)
RECURSIVE Join(_, _)
Join(args, sep) ==
    IF args = <<>> THEN ""
    ELSE IF Len(args) = 1 THEN args[1]
    ELSE args[1] \o sep \o Join(Tail(args), sep)

(***************************************************************************)
(* Diagnostics                                                             *)
(***************************************************************************)
NoDiag == <<>>

\* diag.Diagnostics{{Severity: diag.Error, Summary: fmt.Sprint("vcluster ",
\* strings.Join(args, " ")), Detail: string(output)}}
CommandError(args, output) ==
    <<[severity |-> "Error", summary |-> "vcluster " \o Join(args, " "),
       detail |-> output.text]>>

\* diag.FromErr(err) for the error of json.Unmarshal
DecodeError == <<[severity |-> "Error", summary |-> "json: cannot unmarshal", detail |-> ""]>>

(***************************************************************************)
(* The tool's output and its decoding                                      *)
(***************************************************************************)
Absent == "<absent>"

Text(s) == [kind |-> "text", text |-> s, elems |-> <<>>]
Array(es) == [kind |-> "array", text |-> "", elems |-> es]

\* the JSON objects the list output is built from; a key may be missing
JsonObjects ==
    { [Name |-> "dev1", Namespace |-> "team-a", Status |-> "Running",
       Created |-> T1, Context |-> "kind"],
      [Name |-> "dev1", Namespace |-> Absent, Status |-> "Paused",
       Created |-> T2, Context |-> Absent],
      [Name |-> Absent, Namespace |-> Absent, Status |-> "Running",
       Created |-> Absent, Context |-> Absent],
      [Name |-> "dev2", Namespace |-> Absent, Status |-> "Running",
       Created |-> Absent, Context |-> Absent],
      [Name |-> "dev1", Namespace |-> Absent, Status |-> "Running",
       Created |-> "yesterday", Context |-> Absent] }

\* the objects among them whose Created is a timestamp
GoodObjects == {o \in JsonObjects : o.Created \in ValidTimes \cup {ZeroTime, Absent}}

SeqsUpTo(S, n) == UNION {[1..k -> S] : k \in 0..n}

\* what a successful `list` may print, and what any failing command prints
ListOutputs ==
    {Array(es) : es \in SeqsUpTo(GoodObjects, MaxEntries)}
    \cup {Array(<<o>>) : o \in JsonObjects \ GoodObjects}
    \cup {Text("null"), Text("no vclusters found")}
CommandOutputs == {Text(""), Text("fatal: cluster unreachable")}

\* type ListEntry struct; the zero value is ListEntry{}
ZeroEntry ==
    [Name |-> "", Namespace |-> "", Status |-> "", Created |-> ZeroTime, Context |-> ""]

\* one JSON object into a ListEntry: a missing key leaves the field at zero
DecodeEntry(o) ==
    [Name |-> IF o.Name = Absent THEN "" ELSE o.Name,
     Namespace |-> IF o.Namespace = Absent THEN "" ELSE o.Namespace,
     Status |-> IF o.Status = Absent THEN "" ELSE o.Status,
     Created |-> IF o.Created = Absent THEN ZeroTime ELSE o.Created,
     Context |-> IF o.Context = Absent THEN "" ELSE o.Context]

\* a decoder that takes whatever is no array for the empty list
UnmarshalLenient(o) ==
    IF o.kind = "text"
    THEN [err |-> FALSE, entries |-> <<>>]
    ELSE IF \E i \in 1..Len(o.elems) :
                o.elems[i].Created \notin ValidTimes \cup {ZeroTime, Absent}
         THEN [err |-> TRUE, entries |-> <<>>]
         ELSE [err |-> FALSE,
               entries |-> [i \in 1..Len(o.elems) |-> DecodeEntry(o.elems[i])]]

\* json.Unmarshal(output, &entries): null is the nil slice, anything else
\* that is no array is an error, and so is a Created that is no timestamp
Unmarshal(o) ==
    IF o.kind = "text"
    THEN [err |-> o.text # "null", entries |-> <<>>]
    ELSE IF \E i \in 1..Len(o.elems) :
                o.elems[i].Created \notin ValidTimes \cup {ZeroTime, Absent}
         THEN [err |-> TRUE, entries |-> <<>>]
         ELSE [err |-> FALSE,
               entries |-> [i \in 1..Len(o.elems) |-> DecodeEntry(o.elems[i])]]

(***************************************************************************)
(* What the handlers write into the record                                 *)
(***************************************************************************)
\* the record after the d.SetId / d.Set calls ws, applied in order
RECURSIVE Apply(_, _)
Apply(rd, ws) ==
    IF ws = <<>> THEN rd
    ELSE Apply([rd EXCEPT ![ws[1][1]] = ws[1][2]], Tail(ws))

\* Create that forgets d.SetId
CreateWritesNoId(rd) == << <<"name", rd.name>> >>

\* resourceVClusterCreate after a successful invocation
CreateWrites(rd) == << <<"id", rd.name>>, <<"name", rd.name>> >>

\* the loop with a break at the first match
RECURSIVE ScanEntriesFirst(_, _, _, _)
ScanEntriesFirst(entries, i, id, resourceEntry) ==
    IF i > Len(entries) THEN resourceEntry
    ELSE IF entries[i].Name = id THEN entries[i]
    ELSE ScanEntriesFirst(entries, i + 1, id, resourceEntry)

\* the loop of resourceVClusterRead from entry i on: every entry whose Name
\* is the identifier replaces resourceEntry
RECURSIVE ScanEntries(_, _, _, _)
ScanEntries(entries, i, id, resourceEntry) ==
    IF i > Len(entries) THEN resourceEntry
    ELSE ScanEntries(entries, i + 1, id,
                     IF entries[i].Name = id THEN entries[i] ELSE resourceEntry)

\* Read that does not re-affirm the name
ReadWritesNoName(rd, entries) ==
    LET resourceEntry == ScanEntries(entries, 1, rd.id, ZeroEntry)
    IN  IF resourceEntry = ZeroEntry
        THEN << <<"id", "">> >>
        ELSE << <<"status", resourceEntry.Status>>,
                <<"created", resourceEntry.Created>> >>

\* Read with the absence test inverted
ReadWritesInverted(rd, entries) ==
    LET resourceEntry == ScanEntries(entries, 1, rd.id, ZeroEntry)
    IN  IF resourceEntry # ZeroEntry
        THEN << <<"id", "">> >>
        ELSE << <<"name", resourceEntry.Name>>,
                <<"status", resourceEntry.Status>>,
                <<"created", resourceEntry.Created>> >>

\* resourceVClusterRead after a successful decode
ReadWrites(rd, entries) ==
    LET resourceEntry == ScanEntries(entries, 1, rd.id, ZeroEntry)
    IN  IF resourceEntry = ZeroEntry
        THEN << <<"id", "">> >>
        ELSE << <<"name", resourceEntry.Name>>,
                <<"status", resourceEntry.Status>>,
                <<"created", resourceEntry.Created>> >>

\* Update that resets the observed status
UpdateWritesStatus(rd) == << <<"status", "">> >>

\* Delete that clears the identifier itself
DeleteWritesClearId(rd) == << <<"id", "">> >>

\* resourceVClusterUpdate and resourceVClusterDelete write nothing
UpdateWrites(rd) == <<>>
DeleteWrites(rd) == <<>>

\* sinceDelete after an operation that is no successful Read, Create or Delete
Age(s) == IF s = "read" THEN "none" ELSE s

(***************************************************************************)
(* The host                                                                *)
(***************************************************************************)
\* the host plans a resource from configuration c (a new resource, the
\* replacement of one whose name or distro changed, or the record it starts
\* over with after a destroy or a Read that cleared the identifier)
HostNew ==
    \E c \in Configs :
        /\ d' = NewRecord(c)
        /\ prev' = NewRecord(c)
        /\ imported' = FALSE
        /\ op' = "new"
        /\ invocations' = <<>> /\ exit' = "none" /\ out' = Text("") /\ diag' = NoDiag
        /\ writes' = <<>> /\ again' = FALSE /\ sinceDelete' = "none"

\* `terraform import <address> <id>` through the passthrough importer
HostImport ==
    \E i \in Names :
        /\ d' = ImportedRecord(i)
        /\ prev' = ImportedRecord(i)
        /\ imported' = TRUE
        /\ op' = "import"
        /\ invocations' = <<>> /\ exit' = "none" /\ out' = Text("") /\ diag' = NoDiag
        /\ writes' = <<>> /\ again' = FALSE /\ sinceDelete' = "none"

\* the host merges a changed configuration into the record before Update:
\* only attributes that are not ForceNew change in place
HostChange ==
    /\ ~imported
    /\ \E ns \in Namespaces :
        /\ ns # d.namespace
        /\ d' = [d EXCEPT !.namespace = ns]
        /\ prev' = [d EXCEPT !.namespace = ns]
    /\ op' = "change"
    /\ invocations' = <<>> /\ exit' = "none" /\ out' = Text("") /\ diag' = NoDiag
    /\ writes' = <<>> /\ again' = FALSE /\ sinceDelete' = Age(sinceDelete)
    /\ UNCHANGED imported

(***************************************************************************)
(* The handlers                                                            *)
(***************************************************************************)
resourceVClusterCreate ==
    /\ ~imported
    /\ \E ok \in BOOLEAN, o \in CommandOutputs :
        LET args == CreateArgs(d) IN
        /\ invocations' = <<args>>
        /\ exit' = IF ok THEN "ok" ELSE "fail"
        /\ out' = o
        /\ diag' = IF ok THEN NoDiag ELSE CommandError(args, o)
        /\ writes' = IF ok THEN CreateWrites(d) ELSE <<>>
        /\ d' = IF ok THEN Apply(d, CreateWrites(d)) ELSE d
        /\ sinceDelete' = IF ok THEN "none" ELSE Age(sinceDelete)
    /\ prev' = d
    /\ op' = "create"
    /\ again' = FALSE
    /\ UNCHANGED imported

resourceVClusterRead ==
    /\ \E ok \in BOOLEAN :
       \E o \in IF ok THEN ListOutputs ELSE CommandOutputs :
        LET args == ReadArgs(d)
            dec == Unmarshal(o)
            done == ok /\ ~dec.err
            ws == IF done THEN ReadWrites(d, dec.entries) ELSE <<>>
        IN
        /\ invocations' = <<args>>
        /\ exit' = IF ok THEN "ok" ELSE "fail"
        /\ out' = o
        /\ diag' = IF ~ok THEN CommandError(args, o)
                   ELSE IF dec.err THEN DecodeError ELSE NoDiag
        /\ writes' = ws
        /\ d' = Apply(d, ws)
        /\ imported' = IF done THEN FALSE ELSE imported
        /\ again' = (done /\ op = "read" /\ diag = NoDiag /\ out = o)
        /\ sinceDelete' = IF done
                          THEN (IF sinceDelete = "pending" THEN "read" ELSE "none")
                          ELSE Age(sinceDelete)
    /\ prev' = d
    /\ op' = "read"

resourceVClusterUpdate ==
    /\ ~imported
    /\ invocations' = <<>>
    /\ exit' = "none"
    /\ out' = Text("")
    /\ diag' = NoDiag
    /\ writes' = UpdateWrites(d)
    /\ d' = Apply(d, UpdateWrites(d))
    /\ prev' = d
    /\ op' = "update"
    /\ again' = FALSE
    /\ sinceDelete' = Age(sinceDelete)
    /\ UNCHANGED imported

resourceVClusterDelete ==
    /\ ~imported
    /\ \E ok \in BOOLEAN, o \in CommandOutputs :
        LET args == DeleteArgs(d) IN
        /\ invocations' = <<args>>
        /\ exit' = IF ok THEN "ok" ELSE "fail"
        /\ out' = o
        /\ diag' = IF ok THEN NoDiag ELSE CommandError(args, o)
        /\ sinceDelete' = IF ok /\ d.id # "" THEN "pending" ELSE Age(sinceDelete)
    /\ writes' = DeleteWrites(d)
    /\ d' = Apply(d, DeleteWrites(d))
    /\ prev' = d
    /\ op' = "delete"
    /\ again' = FALSE
    /\ UNCHANGED imported

Init ==
    /\ d \in {NewRecord(c) : c \in Configs}
    /\ prev = d
    /\ imported = FALSE
    /\ op = "new"
    /\ invocations = <<>> /\ exit = "none" /\ out = Text("") /\ diag = NoDiag
    /\ writes = <<>> /\ again = FALSE /\ sinceDelete = "none"

Next ==
    \/ HostNew
    \/ HostImport
    \/ HostChange
    \/ resourceVClusterCreate
    \/ resourceVClusterRead
    \/ resourceVClusterUpdate
    \/ resourceVClusterDelete

Spec == Init /\ [][Next]_vars

(***************************************************************************)
(* The argument vectors as pure functions of the record: every             *)
(* configuration, each builder applied to it                               *)
(***************************************************************************)
ArgInit ==
    /\ d \in {NewRecord(c) : c \in AllConfigs}
    /\ prev = d
    /\ imported = FALSE
    /\ op = "new"
    /\ invocations = <<>> /\ exit = "none" /\ out = Text("") /\ diag = NoDiag
    /\ writes = <<>> /\ again = FALSE /\ sinceDelete = "none"

BuildCreateArgs ==
    /\ op = "new"
    /\ op' = "create"
    /\ invocations' = <<CreateArgs(d)>>
    /\ prev' = d
    /\ UNCHANGED <<d, imported, exit, out, diag, writes, again, sinceDelete>>

BuildReadArgs ==
    /\ op = "new"
    /\ op' = "read"
    /\ invocations' = <<ReadArgs(d)>>
    /\ prev' = d
    /\ UNCHANGED <<d, imported, exit, out, diag, writes, again, sinceDelete>>

BuildDeleteArgs ==
    /\ op = "new"
    /\ op' = "delete"
    /\ invocations' = <<DeleteArgs(d)>>
    /\ prev' = d
    /\ UNCHANGED <<d, imported, exit, out, diag, writes, again, sinceDelete>>

ArgNext == BuildCreateArgs \/ BuildReadArgs \/ BuildDeleteArgs

ArgSpec == ArgInit /\ [][ArgNext]_vars

(***************************************************************************)
(* Vocabulary of the properties                                            *)
(***************************************************************************)
Max(S) == CHOOSE x \in S : \A y \in S : y <= x

\* the positions of token t in vector v
Positions(v, t) == {i \in 1..Len(v) : v[i] = t}

\* the positions of the tokens of v that belong to T
PositionsIn(v, T) == {i \in 1..Len(v) : v[i] \in T}

\* the entries of a decoded list whose Name is id
Matches(id, entries) == {i \in 1..Len(entries) : entries[i].Name = id}

\* an output that is no JSON sequence of ListEntry records
Undecodable(o) ==
    \/ o.kind = "text" /\ o.text # "null"
    \/ \E i \in 1..Len(o.elems) : o.elems[i].Created = "yesterday"

\* the diagnostic of a failed command: its command line and its raw output
IsCommandError(dg, line, output) ==
    /\ Len(dg) = 1
    /\ dg[1].severity = "Error"
    /\ dg[1].summary = line
    /\ dg[1].detail = output.text

\* the command-line name of a boolean attribute
FlagOf(key) ==
    CASE key = "isolate" -> "--isolate="
      [] key = "expose" -> "--expose="
      [] key = "expose_local" -> "--expose-local="
      [] key = "disable_ingress_sync" -> "--disable-ingress-sync="
      [] key = "create_namespace" -> "--create-namespace="

\* the record of the example: name=dev1, distro=k3s, isolate=true,
\* namespace=team-a, nothing else configured
ExampleRecord ==
    [id |-> "", name |-> "dev1", distro |-> "k3s", namespace |-> "team-a",
     context |-> "", kubernetes_version |-> "",
     isolate |-> {TRUE}, expose |-> {}, expose_local |-> {},
     disable_ingress_sync |-> {}, create_namespace |-> {},
     status |-> "", created |-> ""]

C2_CreateSetsIdIffSuccess ==
    (op = "create" /\ exit # "none") =>
        /\ (exit = "ok") <=> (\E i \in 1..Len(writes) : writes[i] = <<"id", prev.name>>)
        /\ exit = "ok" =>
            /\ d = [prev EXCEPT !.id = prev.name, !.name = prev.name]
            /\ diag = NoDiag
        /\ exit = "fail" =>
            /\ d = prev
            /\ writes = <<>>
            /\ IsCommandError(diag, "vcluster " \o Join(invocations[1], " "), out)

\* a failed Create of dev1 on an untracked record, with its diagnostic
C2_Witness ==
    /\ op = "create" /\ exit = "fail"
    /\ prev.id = "" /\ d.id = "" /\ prev.name = "dev1"
    /\ prev.namespace = "" /\ prev.distro = ""
    /\ diag[1].summary = "vcluster create dev1 --connect=false --isolate=false --expose=false --expose-local=false --disable-ingress-sync=false --create-namespace=false"
    /\ diag[1].detail = "fatal: cluster unreachable"

(***************************************************************************)
(* C3                                                                      *)
(***************************************************************************)
\* C3 as stated: in every reachable state a set identifier equals the name.
C3_IdEqualsName == d.id # "" => d.id = d.name

\* C3 amended: a set identifier equals the name, except on an imported
\* record that no Read has succeeded on yet, whose name is empty; and Create,
\* Update and Delete never start on a record whose set identifier differs
\* from its name.
C3_IdEqualsNameOnceRead ==
    /\ d.id # "" => (d.id = d.name \/ (imported /\ d.name = ""))
    /\ (op \in {"create", "update", "delete"} /\ prev.id # "") => prev.id = prev.name

\* the first successful Read of an imported record gave it its name
C3_Witness ==
    /\ op = "read" /\ diag = NoDiag /\ exit = "ok"
    /\ prev.id = "dev1" /\ prev.name = ""
    /\ d.id = "dev1" /\ d.name = "dev1" /\ ~imported

(***************************************************************************)
(* C4                                                                      *)
(***************************************************************************)
\* C4: a Read whose invocation failed, or whose output does not decode,
\* returns one error diagnostic and leaves the whole record as it was.
C4_FailedReadKeepsState ==
    (op = "read" /\ (exit = "fail" \/ (exit = "ok" /\ Undecodable(out)))) =>
        /\ d = prev
        /\ writes = <<>>
        /\ Len(diag) = 1 /\ diag[1].severity = "Error"
        /\ exit = "fail" =>
            IsCommandError(diag, "vcluster " \o Join(invocations[1], " "), out)

\* a Read of a tracked, already observed resource whose output was no JSON
C4_Witness ==
    /\ op = "read" /\ exit = "ok" /\ out = Text("no vclusters found")
    /\ prev.id = "dev1" /\ prev.status = "Running"
    /\ d.id = "dev1" /\ d.status = "Running" /\ diag # NoDiag

(***************************************************************************)
(* C5                                                                      *)
(***************************************************************************)
\* C5: from a successful Delete of a tracked resource until the next
\* successful Read the identifier stays set; that Read clears it if its list
\* has no entry with the deleted name.
C5_DeleteThenRead ==
    /\ sinceDelete = "pending" => d.id # ""
    /\ (sinceDelete = "read"
        /\ \A i \in 1..Len(Unmarshal(out).entries) :
                Unmarshal(out).entries[i].Name # prev.name)
       => (prev.id # "" /\ d.id = "")

\* the first successful Read after a Delete, its list holding other entries
C5_Witness ==
    /\ sinceDelete = "read" /\ op = "read"
    /\ prev.id = "dev2" /\ d.id = ""
    /\ Len(Unmarshal(out).entries) = 2

(***************************************************************************)
(* C6                                                                      *)
(***************************************************************************)
\* C6: Update invokes nothing, returns no diagnostic and leaves the record;
\* Delete invokes `delete <name>` once and leaves the record whether that
\* succeeded or not, a failure returning the error diagnostic.
C6_UpdateDeleteFrame ==
    /\ op = "update" =>
        /\ invocations = <<>> /\ diag = NoDiag /\ writes = <<>> /\ d = prev
    /\ (op = "delete" /\ exit # "none") =>
        /\ Len(invocations) = 1
        /\ SubSeq(invocations[1], 1, 2) = <<"delete", prev.name>>
        /\ writes = <<>> /\ d = prev
        /\ exit = "ok" => diag = NoDiag
        /\ exit = "fail" =>
            IsCommandError(diag, "vcluster " \o Join(invocations[1], " "), out)

\* a failed Delete of a tracked, observed resource
C6_Witness ==
    /\ op = "delete" /\ exit = "fail"
    /\ d.id = "dev1" /\ d.status = "Running" /\ d.namespace = "team-a"
    /\ diag[1].summary = "vcluster delete dev1 --namespace team-a --context kind"

(***************************************************************************)
(* C7                                                                      *)
(***************************************************************************)
\* C7 as stated: the second of two successful Reads in a row of the same
\* list output leaves the record as the first left it.
C7_ReadIdempotent == again => d = prev

\* C7 amended: it does so whenever the first Read left the identifier set,
\* or the list has no entry with an empty Name.
C7_ReadIdempotentWhenNamed ==
    (again /\ (prev.id # ""
               \/ \A i \in 1..Len(Unmarshal(out).entries) :
                      Unmarshal(out).entries[i].Name # ""))
        => d = prev

\* a second Read of a list of named entries, on a resource that was observed
\* and whose identifier a Read has cleared
C7_Witness ==
    /\ again /\ d = prev
    /\ d.id = "" /\ d.name = "dev2" /\ d.status = "Running"
    /\ writes = << <<"id", "">> >>
    /\ Len(out.elems) = 2 /\ out.elems[1].Name = "dev1"

(***************************************************************************)
(* C8                                                                      *)
(***************************************************************************)
\* C8 as stated: in Create's vector the targeting flags come after the
\* creation flags, and the example record gives
\* create dev1 --connect=false --distro=k3s --isolate=true --namespace team-a
C8_CreateArgsAsTabled ==
    (op = "create" /\ Len(invocations) = 1) =>
        LET v == invocations[1] IN
        /\ \A i \in Positions(v, "--namespace") \cup Positions(v, "--context") :
                \A j \in 1..Len(v) :
                    v[j] \in {"--distro=k3s", "--isolate=true", "--isolate=false",
                              "--kubernetes-version=v1.25"} => j < i
        /\ prev = ExampleRecord =>
                v = <<"create", "dev1", "--connect=false", "--distro=k3s",
                      "--isolate=true", "--namespace", "team-a">>

\* C8 amended: Create's vector is `create`, name, `--connect=false`, then
\* `--namespace N` and `--context C` for the non-empty ones, then `--distro=D`
\* if distro is set, then all five boolean flags in the order isolate,
\* expose, expose-local, disable-ingress-sync, create-namespace, each with
\* the configured value or false when the attribute is left out, then
\* `--kubernetes-version=V` if non-empty; the example record gives create
\* dev1 --connect=false --namespace team-a --distro=k3s --isolate=true
\* --expose=false --expose-local=false --disable-ingress-sync=false
\* --create-namespace=false
C8_CreateArgsOrder ==
    (op = "create" /\ Len(invocations) = 1) =>
        LET v == invocations[1]
            val(key) == IF TRUE \in prev[key] THEN "true" ELSE "false"
            segments ==
                << <<"create", prev.name, "--connect=false">>,
                   IF prev.namespace = "" THEN <<>> ELSE <<"--namespace", prev.namespace>>,
                   IF prev.context = "" THEN <<>> ELSE <<"--context", prev.context>>,
                   IF prev.distro = "" THEN <<>> ELSE <<"--distro=" \o prev.distro>>,
                   <<"--isolate=" \o val("isolate")>>,
                   <<"--expose=" \o val("expose")>>,
                   <<"--expose-local=" \o val("expose_local")>>,
                   <<"--disable-ingress-sync=" \o val("disable_ingress_sync")>>,
                   <<"--create-namespace=" \o val("create_namespace")>>,
                   IF prev.kubernetes_version = "" THEN <<>>
                   ELSE <<"--kubernetes-version=" \o prev.kubernetes_version>> >>
        IN
        /\ v = segments[1] \o segments[2] \o segments[3] \o segments[4] \o segments[5]
               \o segments[6] \o segments[7] \o segments[8] \o segments[9] \o segments[10]
        /\ prev = ExampleRecord =>
                v = <<"create", "dev1", "--connect=false", "--namespace", "team-a",
                      "--distro=k3s", "--isolate=true", "--expose=false",
                      "--expose-local=false", "--disable-ingress-sync=false",
                      "--create-namespace=false">>

\* Create's vector for the example record
C8_Witness ==
    /\ op = "create" /\ prev = ExampleRecord
    /\ Len(invocations) = 1 /\ Len(invocations[1]) = 11
    /\ invocations[1][4] = "--namespace" /\ invocations[1][6] = "--distro=k3s"

(***************************************************************************)
(* C9                                                                      *)
(***************************************************************************)
\* C9: the vector of Create, Read and Delete holds the token `--namespace`
\* once, followed by the namespace, when the namespace is non-empty, and not
\* at all when it is empty; and likewise `--context` and the context.
C9_TargetingFlags ==
    (op \in {"create", "read", "delete"} /\ Len(invocations) = 1) =>
        LET v == invocations[1]
            Once(flag, value) ==
                IF value = "" THEN Positions(v, flag) = {}
                ELSE /\ Cardinality(Positions(v, flag)) = 1
                     /\ \A i \in Positions(v, flag) : i < Len(v) /\ v[i + 1] = value
        IN  Once("--namespace", prev.namespace) /\ Once("--context", prev.context)

\* Delete's vector for a namespace and no context
C9_Witness ==
    /\ op = "delete" /\ prev.namespace = "team-a" /\ prev.context = ""
    /\ invocations = << <<"delete", "dev2", "--namespace", "team-a">> >>

(***************************************************************************)
(* C10                                                                     *)
(***************************************************************************)
\* C10: for each of the five boolean attributes that the record holds, even
\* as false, Create's vector has exactly one token of that flag, and it
\* spells the attribute's value as true or false.
C10_BooleanFlags ==
    (op = "create" /\ Len(invocations) = 1) =>
        \A key \in BoolFields :
            prev[key] # {} =>
                LET v == invocations[1]
                    hits == PositionsIn(v, {FlagOf(key) \o "true", FlagOf(key) \o "false"})
                IN  /\ Cardinality(hits) = 1
                    /\ \A i \in hits :
                        v[i] = FlagOf(key) \o (IF prev[key] = {TRUE} THEN "true" ELSE "false")

\* Create's vector for isolate=false, expose=true, disable_ingress_sync=false
C10_Witness ==
    /\ op = "create" /\ Len(invocations) = 1
    /\ prev.isolate = {FALSE} /\ prev.expose = {TRUE}
    /\ prev.disable_ingress_sync = {FALSE} /\ prev.expose_local = {}
    /\ Positions(invocations[1], "--isolate=false") # {}
    /\ Positions(invocations[1], "--expose=true") # {}
    /\ Positions(invocations[1], "--disable-ingress-sync=false") # {}

====
